---- MODULE Spec2Model ----
(***************************************************************************)
(* A model of flatbuffers-build (src/src/lib.rs): the BuilderOptions       *)
(* builder and the compile() driver, which resolves the flatc executable   *)
(* and the output directory, checks the compiler's version, runs the       *)
(* generation, refreshes the symlink and prints the cargo directives.      *)
(*                                                                         *)
(* Text the program inspects character by character (the output of        *)
(* `flatc --version`, error messages) is a sequence of one-character       *)
(* strings.  An OsString / PathBuf is a sequence of string chunks, so that *)
(* OsString::push is concatenation: "/tmp/out" pushed with "/flatbuffers"  *)
(* is <<"/tmp/out", "/flatbuffers">>.                                      *)
(***************************************************************************)
EXTENDS Integers, Sequences, FiniteSets, TLC

VARIABLES
    opts,             \* the BuilderOptions value being built / compiled
    env,              \* the process environment: FLATC_PATH and OUT_DIR
    FLATC_BUILD_PATH, \* option_env!("FLATC_PATH"), fixed when the library is built
    fs,               \* the filesystem: path -> entry
    pc,               \* where the current compile() call stands
    compiler,         \* compile()'s local `compiler`
    output_path,      \* compile()'s local `output_path`
    spawned,          \* the processes this call has run: program, args, outcome
    fsops,            \* the filesystem calls this call has made, with their results
    printed,          \* the lines this call has printed to stdout
    result,           \* what compile() returned (Pending until it returns)
    prev              \* the previous call, when it returned Ok with a symlink set

vars == <<opts, env, FLATC_BUILD_PATH, fs, pc, compiler, output_path,
          spawned, fsops, printed, result, prev>>

-----------------------------------------------------------------------------
(* Bounds of the model *)

\* The longest input file list given to new_with_files.
MaxFiles == 2

-----------------------------------------------------------------------------
(* Option<T> and Result<T, Error> *)

None == <<>>
Some(x) == <<x>>
IsSome(o) == o # <<>>
Unwrap(o) == o[1]

Ok(v) == [ok |-> TRUE, val |-> v]
Err(e) == [ok |-> FALSE, err |-> e]
Unit == "()"

-----------------------------------------------------------------------------
(* Constants of the library *)

\* "flatc version "
FLATC_VERSION_PREFIX ==
    <<"f","l","a","t","c"," ","v","e","r","s","i","o","n"," ">>

\* "24.3.25"
SUPPORTED_FLATC_VERSION ==
    <<"2","4",".","3",".","2","5">>

-----------------------------------------------------------------------------
(* The Error enum and its Display implementation *)

FlatcErrorCode(status_code, stdout, stderr) ==
    [kind |-> "FlatcErrorCode", status_code |-> status_code,
     stdout |-> stdout, stderr |-> stderr]
InvalidFlatcOutput(stdout) == [kind |-> "InvalidFlatcOutput", output |-> stdout]
UnsupportedFlatcVersion(v) == [kind |-> "UnsupportedFlatcVersion", version |-> v]
FlatcSpawnFailure(ioerr) == [kind |-> "FlatcSpawnFailure", source |-> ioerr]
OutputDirNotSet == [kind |-> "OutputDirNotSet"]
SymlinkCreationFailure(ioerr) == [kind |-> "SymlinkCreationFailure", source |-> ioerr]

\* The grave accent (U+0060), which a TLA+ string cannot hold.
Backtick == "U+0060"

\* Display of an io::Error, by its errno.
IoErrorMessage(errno) ==
    CASE errno = "ENOENT" -> <<"N","o"," ","s","u","c","h"," ","f","i","l","e">>
      [] errno = "EACCES" -> <<"P","e","r","m","i","s","s","i","o","n"," ",
                               "d","e","n","i","e","d">>
      [] errno = "EEXIST" -> <<"F","i","l","e"," ","e","x","i","s","t","s">>
      [] errno = "EISDIR" -> <<"I","s"," ","a"," ","d","i","r","e","c","t","o","r","y">>

\* {:?} of an Option<i32> holding a one-digit code.
DebugStatusCode(status_code) ==
    IF IsSome(status_code)
    THEN <<"S","o","m","e","(">> \o
         << <<"0","1","2","3","4","5","6","7","8","9">>[Unwrap(status_code) + 1] >> \o
         <<")">>
    ELSE <<"N","o","n","e">>

\* The #[error("...")] format of each variant.
ErrorMessage(e) ==
    CASE e.kind = "FlatcErrorCode" ->
            <<"f","l","a","t","c"," ","e","x","i","t","e","d"," ","u","n","e","x","p",
              "e","c","t","e","d","l","y"," ","w","i","t","h"," ","s","t","a","t","u",
              "s"," ","c","o","d","e"," ">>
            \o DebugStatusCode(e.status_code)
            \o <<"\n","-","-"," ","s","t","d","o","u","t",":","\n">> \o e.stdout
            \o <<"\n","-","-"," ","s","t","d","e","r","r",":","\n">> \o e.stderr
            \o <<"\n">>
      [] e.kind = "InvalidFlatcOutput" ->
            <<"f","l","a","t","c"," ","r","e","t","u","r","n","e","d"," ","i","n","v",
              "a","l","i","d"," ","o","u","t","p","u","t"," ","f","o","r"," ","-","-",
              "v","e","r","s","i","o","n",":"," ">>
            \o e.output
      [] e.kind = "UnsupportedFlatcVersion" ->
            <<"f","l","a","t","c"," ","v","e","r","s","i","o","n"," ","'">>
            \o e.version
            \o <<"'"," ","i","s"," ","u","n","s","u","p","p","o","r","t","e","d"," ","b",
                 "y"," ","t","h","i","s"," ","v","e","r","s","i","o","n"," ","o","f"," ",
                 "t","h","e"," ","l","i","b","r","a","r","y","."," ","P","l","e","a","s",
                 "e"," ","m","a","t","c","h"," ","y","o","u","r"," ","l","i","b","r","a",
                 "r","y"," ","w","i","t","h"," ","y","o","u","r"," ","f","l","a","t","c",
                 " ","v","e","r","s","i","o","n">>
      [] e.kind = "FlatcSpawnFailure" ->
            <<"f","l","a","t","c"," ","f","a","i","l","e","d"," ","t","o"," ","s","p",
              "a","w","n",":"," ">>
            \o IoErrorMessage(e.source)
      [] e.kind = "OutputDirNotSet" ->
            <<"o","u","t","p","u","t"," ","d","i","r","e","c","t","o","r","y"," ","w",
              "a","s"," ","n","o","t"," ","s","e","t","."," ","E","i","t","h","e","r",
              " ","c","a","l","l"," ",".","s","e","t","_","o","u","t","p","u","t","_",
              "p","a","t","h","(",")"," ","o","r"," ","s","e","t"," ","t","h","e"," ",
              Backtick,"O","U","T","_","D","I","R",Backtick," ","e","n","v"," ","v","a","r">>
      [] e.kind = "SymlinkCreationFailure" ->
            <<"f","a","i","l","e","d"," ","t","o"," ","c","r","e","a","t","e"," ","s",
              "y","m","l","i","n","k"," ","p","a","t","h"," ","r","e","q","u","e","s",
              "t","e","d",":"," ">>
            \o IoErrorMessage(e.source)

-----------------------------------------------------------------------------
(* String helpers of the standard library *)

\* str::starts_with
starts_with(s, prefix) ==
    /\ Len(s) >= Len(prefix)
    /\ SubSeq(s, 1, Len(prefix)) = prefix

\* char::is_whitespace, over the characters of the model
Whitespace == {" ", "\n", "\t", "\r"}

\* str::trim_end
RECURSIVE trim_end(_)
trim_end(s) ==
    IF s # <<>> /\ s[Len(s)] \in Whitespace
    THEN trim_end(SubSeq(s, 1, Len(s) - 1))
    ELSE s

\* A byte that is not valid UTF-8 wherever it stands (0xFF), and U+FFFD.
BadByte == "\\xFF"
ReplacementChar == "\\u{FFFD}"

\* String::from_utf8_lossy(..).into_owned(): every invalid byte becomes U+FFFD.
from_utf8_lossy(bytes) ==
    [i \in 1..Len(bytes) |-> IF bytes[i] = BadByte THEN ReplacementChar ELSE bytes[i]]

-----------------------------------------------------------------------------
(* The values of the model *)

OsStr(s) == <<s>>

\* Input schema files, as the caller names them.
FileNames == {OsStr("a.fbs"), OsStr("weapon.fbs"), OsStr("example.fbs")}

\* Every file list of at most n entries, repeats included.
RECURSIVE FileLists(_)
FileLists(n) ==
    IF n = 0 THEN {<<>>}
    ELSE LET shorter == FileLists(n - 1)
         IN  shorter \cup {Append(l, f) : l \in {x \in shorter : Len(x) = n - 1},
                                          f \in FileNames}

OverrideCompiler == "/opt/flatc/bin/flatc"
EnvCompiler == "/usr/local/bin/flatc"
VendoredCompiler == "/target/build/out/bin/flatc"

EnvOutDir == OsStr("/tmp/out")
DefaultOutDir == <<"/tmp/out", "/flatbuffers">>
ExplicitOutDir == OsStr("/work/generated")
OutDirs == {EnvOutDir, DefaultOutDir, ExplicitOutDir}

SymlinkPath == OsStr("src/gen_flatbuffers")

\* The file the compiler writes into its output directory.
MarkerSuffix == OsStr("/mod.rs")
MarkerIn(dir) == dir \o MarkerSuffix

Paths == OutDirs \cup {MarkerIn(d) : d \in OutDirs} \cup {SymlinkPath}

Absent == [type |-> "absent"]
Dir == [type |-> "dir"]
File == [type |-> "file"]
Symlink(target) == [type |-> "symlink", target |-> target]

-----------------------------------------------------------------------------
(* BuilderOptions *)

new_with_files(files) ==
    [files |-> [i \in 1..Len(files) |-> files[i]],
     compiler |-> None,
     output_path |-> None,
     symlink_path |-> None,
     supress_buildrs_directives |-> FALSE]

set_compiler(self, c) == [self EXCEPT !.compiler = Some(c)]

set_output_path(self, p) == [self EXCEPT !.output_path = Some(p)]

set_symlink_directory(self, p) == [self EXCEPT !.symlink_path = Some(p)]

supress_buildrs_directives(self) == [self EXCEPT !.supress_buildrs_directives = TRUE]

-----------------------------------------------------------------------------
(* compile(): resolving the compiler and the output directory *)

\* builder_options.compiler.unwrap_or_else(..)
ResolveCompiler(o, build_flatc, e) ==
    IF IsSome(o.compiler) THEN Unwrap(o.compiler)
    ELSE IF IsSome(build_flatc) THEN Unwrap(build_flatc)
    ELSE IF IsSome(e.FLATC_PATH) THEN Unwrap(e.FLATC_PATH)
    ELSE "flatc"

\* A plausible slip: OUT_DIR itself, without the pushed "/flatbuffers".
ResolveOutputPath_NoSubdir(o, e) ==
    IF IsSome(o.output_path) THEN Ok(Unwrap(o.output_path))
    ELSE IF IsSome(e.OUT_DIR) THEN Ok(Unwrap(e.OUT_DIR))
    ELSE Err(OutputDirNotSet)

\* A plausible slip: the current directory when nothing names the output.
ResolveOutputPath_Fallback(o, e) ==
    IF IsSome(o.output_path) THEN Ok(Unwrap(o.output_path))
    ELSE IF IsSome(e.OUT_DIR) THEN Ok(Unwrap(e.OUT_DIR) \o OsStr("/flatbuffers"))
    ELSE Ok(ExplicitOutDir)

\* builder_options.output_path.map_or_else(..)
ResolveOutputPath(o, e) ==
    IF IsSome(o.output_path) THEN Ok(Unwrap(o.output_path))
    ELSE IF IsSome(e.OUT_DIR) THEN Ok(Unwrap(e.OUT_DIR) \o OsStr("/flatbuffers"))
    ELSE Err(OutputDirNotSet)

-----------------------------------------------------------------------------
(* Running flatc *)

\* What Command::output() can come back with: the process did not start, or it
\* ran and left an exit status (None: killed by a signal) and two byte streams.
SpawnError(errno) ==
    [spawn_error |-> Some(errno), status |-> None, stdout |-> <<>>, stderr |-> <<>>]
Exited(status, stdout, stderr) ==
    [spawn_error |-> None, status |-> status, stdout |-> stdout, stderr |-> stderr]

\* ExitStatus::success
success(outcome) == outcome.status = Some(0)

\* A plausible slip: the exit status is never looked at.
run_flatc_IgnoreStatus(outcome) ==
    IF IsSome(outcome.spawn_error)
    THEN Err(FlatcSpawnFailure(Unwrap(outcome.spawn_error)))
    ELSE Ok([stdout |-> from_utf8_lossy(outcome.stdout),
             _stderr |-> from_utf8_lossy(outcome.stderr)])

\* A plausible slip: the error built from stdout twice.
run_flatc_StdoutTwice(outcome) ==
    IF IsSome(outcome.spawn_error)
    THEN Err(FlatcSpawnFailure(Unwrap(outcome.spawn_error)))
    ELSE LET stdout == from_utf8_lossy(outcome.stdout)
         IN  IF success(outcome)
             THEN Ok([stdout |-> stdout, _stderr |-> stdout])
             ELSE Err(FlatcErrorCode(outcome.status, stdout, stdout))

run_flatc(outcome) ==
    IF IsSome(outcome.spawn_error)
    THEN Err(FlatcSpawnFailure(Unwrap(outcome.spawn_error)))
    ELSE LET stdout == from_utf8_lossy(outcome.stdout)
             stderr == from_utf8_lossy(outcome.stderr)
         IN  IF success(outcome)
             THEN Ok([stdout |-> stdout, _stderr |-> stderr])
             ELSE Err(FlatcErrorCode(outcome.status, stdout, stderr))

\* A plausible slip: the version is compared without trim_end.
confirm_flatc_version_NoTrim(outcome) ==
    LET output == run_flatc(outcome)
    IN  IF ~output.ok THEN output
        ELSE IF starts_with(output.val.stdout, FLATC_VERSION_PREFIX)
        THEN LET version_str == SubSeq(output.val.stdout,
                                       Len(FLATC_VERSION_PREFIX) + 1,
                                       Len(output.val.stdout))
             IN  IF version_str = SUPPORTED_FLATC_VERSION
                 THEN Ok(Unit)
                 ELSE Err(UnsupportedFlatcVersion(version_str))
        ELSE Err(InvalidFlatcOutput(output.val.stdout))

confirm_flatc_version(outcome) ==
    LET output == run_flatc(outcome)
    IN  IF ~output.ok THEN output
        ELSE IF starts_with(output.val.stdout, FLATC_VERSION_PREFIX)
        THEN LET version_str == trim_end(SubSeq(output.val.stdout,
                                                Len(FLATC_VERSION_PREFIX) + 1,
                                                Len(output.val.stdout)))
             IN  IF version_str = SUPPORTED_FLATC_VERSION
                 THEN Ok(Unit)
                 ELSE Err(UnsupportedFlatcVersion(version_str))
        ELSE Err(InvalidFlatcOutput(output.val.stdout))

VersionArgs == <<OsStr("--version")>>

\* A plausible slip: the input files sorted into a set, losing order and repeats.
RECURSIVE SetToSeq(_)
SetToSeq(S) ==
    IF S = {} THEN <<>>
    ELSE LET x == CHOOSE x \in S : TRUE IN <<x>> \o SetToSeq(S \ {x})

GenerationArgs_Dedup(out, files) ==
    <<OsStr("--rust"), OsStr("--rust-module-root-file"), OsStr("-o"), out>>
    \o SetToSeq({files[i] : i \in 1..Len(files)})

\* vec![..] and args.extend(files_str)
GenerationArgs(out, files) ==
    <<OsStr("--rust"), OsStr("--rust-module-root-file"), OsStr("-o"), out>>
    \o [i \in 1..Len(files) |-> files[i]]

-----------------------------------------------------------------------------
(* The filesystem calls compile() makes *)

\* Path::exists: follows symbolic links, so a link whose target is missing
\* does not exist.  fuel bounds the links followed (ELOOP).
RECURSIVE exists(_, _, _)
exists(f, p, fuel) ==
    IF p \notin DOMAIN f \/ fuel = 0 THEN FALSE
    ELSE CASE f[p].type = "absent" -> FALSE
           [] f[p].type = "symlink" -> exists(f, f[p].target, fuel - 1)
           [] OTHER -> TRUE

\* How many links Path::exists follows in the model: links point at directories.
LinkDepth == 2

\* std::fs::remove_file (unlink): cannot remove what is not there, needs write
\* access to the parent directory, and refuses a directory.
remove_file(f, p, denied) ==
    IF f[p].type = "absent" THEN [fs |-> f, res |-> Err("ENOENT")]
    ELSE IF denied THEN [fs |-> f, res |-> Err("EACCES")]
    ELSE IF f[p].type = "dir" THEN [fs |-> f, res |-> Err("EISDIR")]
    ELSE [fs |-> [f EXCEPT ![p] = Absent], res |-> Ok(Unit)]

\* std::os::unix::fs::symlink: fails on any existing entry, a dangling link
\* included, and needs write access to the parent directory.
symlink(f, original, link, denied) ==
    IF f[link].type # "absent" THEN [fs |-> f, res |-> Err("EEXIST")]
    ELSE IF denied THEN [fs |-> f, res |-> Err("EACCES")]
    ELSE [fs |-> [f EXCEPT ![link] = Symlink(original)], res |-> Ok(Unit)]

\* A plausible slip: a failed removal reported as any other failure of the
\* compiler would be.
generate_symlink_WrongKind(f, symlink_path, out, denied) ==
    LET removed == IF exists(f, symlink_path, LinkDepth)
                   THEN remove_file(f, symlink_path, denied)
                   ELSE [fs |-> f, res |-> Ok(Unit)]
        rm_ops == IF exists(f, symlink_path, LinkDepth)
                  THEN <<[op |-> "remove_file", path |-> symlink_path,
                          res |-> removed.res]>>
                  ELSE <<>>
    IN  IF ~removed.res.ok
        THEN [fs |-> removed.fs, ops |-> rm_ops,
              result |-> Err(FlatcSpawnFailure(removed.res.err))]
        ELSE LET linked == symlink(removed.fs, out, symlink_path, denied)
             IN  [fs |-> linked.fs,
                  ops |-> Append(rm_ops, [op |-> "symlink", path |-> symlink_path,
                                          res |-> linked.res]),
                  result |-> IF linked.res.ok THEN Ok(Unit)
                             ELSE Err(SymlinkCreationFailure(linked.res.err))]

\* generate_symlink: the filesystem it leaves, the calls it made and its result.
generate_symlink(f, symlink_path, out, denied) ==
    LET removed == IF exists(f, symlink_path, LinkDepth)
                   THEN remove_file(f, symlink_path, denied)
                   ELSE [fs |-> f, res |-> Ok(Unit)]
        rm_ops == IF exists(f, symlink_path, LinkDepth)
                  THEN <<[op |-> "remove_file", path |-> symlink_path,
                          res |-> removed.res]>>
                  ELSE <<>>
    IN  IF ~removed.res.ok
        THEN [fs |-> removed.fs, ops |-> rm_ops,
              result |-> Err(SymlinkCreationFailure(removed.res.err))]
        ELSE LET linked == symlink(removed.fs, out, symlink_path, denied)
             IN  [fs |-> linked.fs,
                  ops |-> Append(rm_ops, [op |-> "symlink", path |-> symlink_path,
                                          res |-> linked.res]),
                  result |-> IF linked.res.ok THEN Ok(Unit)
                             ELSE Err(SymlinkCreationFailure(linked.res.err))]

\* The directory a compiler run is told to write to: the argument after -o.
OutputArg(args) ==
    IF \E i \in 1..(Len(args) - 1) : args[i] = OsStr("-o")
    THEN Some(args[(CHOOSE i \in 1..(Len(args) - 1) : args[i] = OsStr("-o")) + 1])
    ELSE None

\* What a compiler that generates code leaves on disk: its output directory,
\* created if missing, and the module root file in it.
FlatcWrites(f, args) ==
    LET o == OutputArg(args)
    IN  IF IsSome(o) /\ Unwrap(o) \in OutDirs
        THEN [f EXCEPT ![Unwrap(o)] = Dir, ![MarkerIn(Unwrap(o))] = File]
        ELSE f

\* println!("cargo::rerun-if-changed={}", path.display())
Directive(path) == OsStr("cargo::rerun-if-changed=") \o path

\* A plausible slip: the flag that suppresses the directives is not consulted.
FileDirectives_Unsuppressed(o) ==
    [i \in 1..Len(o.files) |-> Directive(o.files[i])]

\* The directives of the input files, one per entry of the list.
FileDirectives(o) ==
    IF ~o.supress_buildrs_directives
    THEN [i \in 1..Len(o.files) |-> Directive(o.files[i])]
    ELSE <<>>

\* The directive of the symlink, printed once the link is in place.
SymlinkDirective(o) ==
    IF ~o.supress_buildrs_directives
    THEN <<Directive(Unwrap(o.symlink_path))>>
    ELSE <<>>

-----------------------------------------------------------------------------
(* What the environment can answer *)

\* "flatc version 24.3.25\n", as the supported compiler prints it.
SupportedVersionLine == FLATC_VERSION_PREFIX \o SUPPORTED_FLATC_VERSION \o <<"\n">>

\* "25.2.10", another release of flatc.
OtherVersion == <<"2","5",".","2",".","1","0">>

\* "usage: cc", what a program that is not flatc may print.
NotFlatcLine == <<"u","s","a","g","e",":"," ","c","c">>

\* The runs of `flatc --version` the pipeline is explored with.
VersionRuns ==
    { SpawnError("ENOENT"),
      Exited(Some(0), SupportedVersionLine, <<>>),
      Exited(Some(0), FLATC_VERSION_PREFIX \o OtherVersion \o <<"\n">>, <<>>),
      Exited(Some(0), NotFlatcLine, <<>>),
      Exited(Some(1), NotFlatcLine, <<"e">>),
      Exited(None, <<>>, <<>>) }

\* The output of `flatc --version` in pieces: what stands where the prefix
\* should, what stands where the version should, and what follows.
VersionHeads ==
    { FLATC_VERSION_PREFIX,
      <<>>,
      SubSeq(FLATC_VERSION_PREFIX, 1, Len(FLATC_VERSION_PREFIX) - 1),
      <<" ">> \o FLATC_VERSION_PREFIX,
      <<"F">> \o SubSeq(FLATC_VERSION_PREFIX, 2, Len(FLATC_VERSION_PREFIX)),
      <<BadByte>> \o FLATC_VERSION_PREFIX }
VersionBodies ==
    { SUPPORTED_FLATC_VERSION,
      OtherVersion,
      <<>>,
      SUPPORTED_FLATC_VERSION \o <<"-","r","c">>,
      SubSeq(SUPPORTED_FLATC_VERSION, 1, Len(SUPPORTED_FLATC_VERSION) - 1),
      <<" ">> \o SUPPORTED_FLATC_VERSION,
      <<"2","4",BadByte>> }
VersionTails ==
    { <<>>, <<"\n">>, <<" ","\t">>, <<"\r","\n">>, <<"\n","x">> }

\* Every run of `flatc --version` the version check is explored with.
AllVersionRuns ==
    {SpawnError("ENOENT")} \cup
    { Exited(st, h \o b \o t, <<>>) :
        st \in {Some(0), Some(1), None},
        h \in VersionHeads, b \in VersionBodies, t \in VersionTails }

\* The runs of the generation the pipeline is explored with.
GenerationRuns ==
    { SpawnError("ENOENT"),
      Exited(Some(0), <<>>, <<>>),
      Exited(Some(1), <<>>, <<"e","r","r","o","r">>),
      Exited(Some(1), <<"o", BadByte>>, <<"e", BadByte>>),
      Exited(None, <<"o">>, <<>>) }

-----------------------------------------------------------------------------
(* The state machine *)

\* The state after BuilderOptions::new_with_files, in a process whose run-time
\* FLATC_PATH is one of flatc_paths and whose library was built with one of
\* build_paths captured by option_env!; OUT_DIR is set or not.
InitWith(lists, flatc_paths, build_paths) ==
    /\ opts \in {new_with_files(l) : l \in lists}
    /\ env \in [FLATC_PATH : flatc_paths,
                OUT_DIR : {None, Some(EnvOutDir)}]
    /\ FLATC_BUILD_PATH \in build_paths
    /\ fs \in {[p \in Paths |-> IF p = EnvOutDir THEN Dir
                                ELSE IF p = SymlinkPath THEN e ELSE Absent]
               : e \in {Absent, Dir, File}}
    /\ pc = "build"
    /\ compiler = None
    /\ output_path = None
    /\ spawned = <<>>
    /\ fsops = <<>>
    /\ printed = <<>>
    /\ result = None
    /\ prev = None

\* The whole pipeline, the compiler being the override or the plain "flatc":
\* no FLATC_PATH at run time, none captured at build time.
Init == InitWith(FileLists(MaxFiles), {None}, {None})

\* BuilderOptions::new_with_files, once the previous call has returned.
NewWithFiles ==
    /\ pc = "done"
    /\ \E l \in FileLists(MaxFiles) : opts' = new_with_files(l)
    /\ prev' = IF result = Some(Ok(Unit)) /\ IsSome(opts.symlink_path)
               THEN Some([symlink_path |-> Unwrap(opts.symlink_path),
                          output_path |-> Unwrap(output_path)])
               ELSE None
    /\ pc' = "build"
    /\ compiler' = None
    /\ output_path' = None
    /\ spawned' = <<>>
    /\ fsops' = <<>>
    /\ printed' = <<>>
    /\ result' = None
    /\ UNCHANGED <<env, FLATC_BUILD_PATH, fs>>

SetCompiler ==
    /\ pc = "build"
    /\ opts' = set_compiler(opts, OverrideCompiler)
    /\ UNCHANGED <<env, FLATC_BUILD_PATH, fs, pc, compiler, output_path,
                   spawned, fsops, printed, result, prev>>

SetOutputPath ==
    /\ pc = "build"
    /\ opts' = set_output_path(opts, ExplicitOutDir)
    /\ UNCHANGED <<env, FLATC_BUILD_PATH, fs, pc, compiler, output_path,
                   spawned, fsops, printed, result, prev>>

SetSymlinkDirectory ==
    /\ pc = "build"
    /\ opts' = set_symlink_directory(opts, SymlinkPath)
    /\ UNCHANGED <<env, FLATC_BUILD_PATH, fs, pc, compiler, output_path,
                   spawned, fsops, printed, result, prev>>

SupressBuildrsDirectives ==
    /\ pc = "build"
    /\ opts' = supress_buildrs_directives(opts)
    /\ UNCHANGED <<env, FLATC_BUILD_PATH, fs, pc, compiler, output_path,
                   spawned, fsops, printed, result, prev>>

\* compile(), up to the `?` on the output path.
Compile ==
    /\ pc = "build"
    /\ compiler' = Some(ResolveCompiler(opts, FLATC_BUILD_PATH, env))
    /\ LET r == ResolveOutputPath(opts, env)
       IN  IF r.ok
           THEN /\ output_path' = Some(r.val)
                /\ pc' = "version"
                /\ result' = None
           ELSE /\ output_path' = None
                /\ pc' = "done"
                /\ result' = Some(r)
    /\ UNCHANGED <<opts, env, FLATC_BUILD_PATH, fs, spawned, fsops, printed, prev>>

\* confirm_flatc_version(&compiler)?, the compiler answering with `run`.
ConfirmVersionWith(run) ==
    /\ pc = "version"
    /\ spawned' = Append(spawned, [program |-> Unwrap(compiler),
                                   args |-> VersionArgs, outcome |-> run,
                                   wrote |-> FALSE])
    /\ LET r == confirm_flatc_version(run)
       IN  IF r.ok
           THEN /\ pc' = "generate"
                /\ result' = None
           ELSE /\ pc' = "done"
                /\ result' = Some(r)
    /\ UNCHANGED <<opts, env, FLATC_BUILD_PATH, fs, compiler, output_path,
                   fsops, printed, prev>>

ConfirmVersion == \E run \in VersionRuns : ConfirmVersionWith(run)

\* run_flatc(&compiler, &args)?: the generation.  A compiler that exits with
\* status 0 has written its output, or (a stub, a wrapper) has written nothing.
RunGeneration ==
    /\ pc = "generate"
    /\ \E run \in GenerationRuns, wrote \in BOOLEAN :
         LET args == GenerationArgs(Unwrap(output_path), opts.files)
             r == run_flatc(run)
         IN  /\ wrote => (~IsSome(run.spawn_error) /\ success(run))
             /\ spawned' = Append(spawned, [program |-> Unwrap(compiler),
                                            args |-> args, outcome |-> run,
                                            wrote |-> wrote])
             /\ fs' = IF wrote THEN FlatcWrites(fs, args) ELSE fs
             /\ IF r.ok
                THEN /\ pc' = IF IsSome(opts.symlink_path) THEN "symlink"
                              ELSE "directives"
                     /\ result' = None
                ELSE /\ pc' = "done"
                     /\ result' = Some(r)
    /\ UNCHANGED <<opts, env, FLATC_BUILD_PATH, compiler, output_path,
                   fsops, printed, prev>>

\* The `if let Some(symlink_path)` block: generate_symlink(..)? and the
\* directive of the link.  denied: the link's directory is not writable.
GenerateSymlink ==
    /\ pc = "symlink"
    /\ \E denied \in BOOLEAN :
         LET g == generate_symlink(fs, Unwrap(opts.symlink_path),
                                   Unwrap(output_path), denied)
         IN  /\ fs' = g.fs
             /\ fsops' = fsops \o g.ops
             /\ IF g.result.ok
                THEN /\ printed' = printed \o SymlinkDirective(opts)
                     /\ pc' = "directives"
                     /\ result' = None
                ELSE /\ printed' = printed
                     /\ pc' = "done"
                     /\ result' = Some(g.result)
    /\ UNCHANGED <<opts, env, FLATC_BUILD_PATH, compiler, output_path,
                   spawned, prev>>

\* The directives of the input files, and Ok(()).
PrintDirectives ==
    /\ pc = "directives"
    /\ printed' = printed \o FileDirectives(opts)
    /\ pc' = "done"
    /\ result' = Some(Ok(Unit))
    /\ UNCHANGED <<opts, env, FLATC_BUILD_PATH, fs, compiler, output_path,
                   spawned, fsops, prev>>

Next ==
    \/ NewWithFiles
    \/ SetCompiler
    \/ SetOutputPath
    \/ SetSymlinkDirectory
    \/ SupressBuildrsDirectives
    \/ Compile
    \/ ConfirmVersion
    \/ RunGeneration
    \/ GenerateSymlink
    \/ PrintDirectives

Spec == Init /\ [][Next]_vars

\* Resolving the compiler: every environment and every build of the library,
\* up to the first process compile() runs.
InitResolve ==
    InitWith(FileLists(1), {None, Some(EnvCompiler)}, {None, Some(VendoredCompiler)})

NextResolve ==
    \/ SetCompiler
    \/ SetOutputPath
    \/ SetSymlinkDirectory
    \/ SupressBuildrsDirectives
    \/ Compile
    \/ ConfirmVersion

SpecResolve == InitResolve /\ [][NextResolve]_vars

\* The version check alone, over every output of `flatc --version`.
InitVersion ==
    InitWith({<<OsStr("weapon.fbs"), OsStr("example.fbs")>>},
             {None, Some(EnvCompiler)}, {None})

ConfirmVersionAny == \E run \in AllVersionRuns : ConfirmVersionWith(run)

NextVersion ==
    \/ Compile
    \/ ConfirmVersionAny

SpecVersion == InitVersion /\ [][NextVersion]_vars

-----------------------------------------------------------------------------
(* Vocabulary of the properties *)

\* s occurs in text, as a run of consecutive characters.
Contains(text, s) ==
    \E i \in 0..(Len(text) - Len(s)) : SubSeq(text, i + 1, i + Len(s)) = s

\* x without its trailing whitespace: the longest prefix of x that does not
\* end in whitespace.
TrimmedEnd(x) ==
    LET n == CHOOSE n \in 0..Len(x) :
                 /\ \A i \in (n + 1)..Len(x) : x[i] \in {" ", "\n", "\t", "\r"}
                 /\ n > 0 => x[n] \notin {" ", "\n", "\t", "\r"}
    IN  SubSeq(x, 1, n)

\* text is bytes read as UTF-8, each invalid byte replaced by U+FFFD.
LossyImage(text, bytes) ==
    /\ Len(text) = Len(bytes)
    /\ \A i \in 1..Len(bytes) :
         text[i] = IF bytes[i] = "\\xFF" THEN "\\u{FFFD}" ELSE bytes[i]

Returned == pc = "done" /\ IsSome(result)
ReturnedOk == Returned /\ Unwrap(result).ok
ReturnedErr(kind) ==
    Returned /\ ~Unwrap(result).ok /\ Unwrap(result).err.kind = kind

\* The version query of this call has run (spawned or not), and how it ended.
VersionQueried == Len(spawned) >= 1 /\ spawned[1].args = <<<<"--version">>>>
VersionRan == VersionQueried /\ ~IsSome(spawned[1].outcome.spawn_error)
VersionStdout == from_utf8_lossy(spawned[1].outcome.stdout)
VersionHasPrefix ==
    /\ Len(VersionStdout) >= 14
    /\ SubSeq(VersionStdout, 1, 14) =
         <<"f","l","a","t","c"," ","v","e","r","s","i","o","n"," ">>
\* X of "flatc version X", trimmed.
ReportedVersion == TrimmedEnd(SubSeq(VersionStdout, 15, Len(VersionStdout)))
VersionAccepted ==
    /\ VersionRan
    /\ spawned[1].outcome.status = <<0>>
    /\ VersionHasPrefix
    /\ ReportedVersion = <<"2","4",".","3",".","2","5">>

\* The generation of this call has run, and how it ended.
GenerationRan == Len(spawned) = 2 /\ ~IsSome(spawned[2].outcome.spawn_error)
GenerationFailed == GenerationRan /\ spawned[2].outcome.status # <<0>>
GenerationSucceeded == GenerationRan /\ spawned[2].outcome.status = <<0>>

\* The symlink refresh of this call has run, and how it ended.
RefreshRan == fsops # <<>>
LastFsOp == fsops[Len(fsops)]
RefreshFailed == RefreshRan /\ ~LastFsOp.res.ok
RefreshSucceeded == RefreshRan /\ LastFsOp.op = "symlink" /\ LastFsOp.res.ok

-----------------------------------------------------------------------------
(* C1 *)

\* The compiler the documented order resolves: the override, then the run-time
\* FLATC_PATH, then the path embedded at build time, then "flatc".
DocumentedCompiler ==
    IF IsSome(opts.compiler) THEN Unwrap(opts.compiler)
    ELSE IF IsSome(env.FLATC_PATH) THEN Unwrap(env.FLATC_PATH)
    ELSE IF IsSome(FLATC_BUILD_PATH) THEN Unwrap(FLATC_BUILD_PATH)
    ELSE "flatc"

\* C1: the executable compile() invokes is the first available of the
\* set_compiler override, the run-time FLATC_PATH, the build-time-embedded
\* FLATC_PATH and "flatc"; with no override and both paths present, the run-time
\* one is invoked.
C1_ResolutionOrder ==
    \A i \in 1..Len(spawned) : spawned[i].program = DocumentedCompiler

-----------------------------------------------------------------------------
(* C2 *)

NoOutputDir == opts.output_path = None /\ env.OUT_DIR = None

\* C2: with no explicit output path and OUT_DIR unset, compile() returns
\* OutputDirNotSet, having spawned no process, touched no symlink and printed
\* no directive, whatever the other options are.
C2_OutputDirNotSet ==
    (pc # "build" /\ NoOutputDir) =>
        /\ ReturnedErr("OutputDirNotSet")
        /\ spawned = <<>>
        /\ fsops = <<>>
        /\ printed = <<>>

C2_Witness ==
    /\ pc = "done"
    /\ NoOutputDir
    /\ IsSome(opts.compiler)
    /\ IsSome(opts.symlink_path)
    /\ ~opts.supress_buildrs_directives
    /\ Len(opts.files) = 2

-----------------------------------------------------------------------------
(* C3 *)

\* C3 as stated: a version query whose stdout does not begin with
\* "flatc version " fails with InvalidFlatcOutput, whatever the exit status.
C3_AnyExitCode ==
    (pc # "version" /\ VersionRan /\ ~VersionHasPrefix) =>
        ReturnedErr("InvalidFlatcOutput")

\* C3, amended: a version query that exits with status 0 and whose stdout does
\* not begin with "flatc version " fails with InvalidFlatcOutput; one that exits
\* with another status or is killed by a signal fails with FlatcErrorCode,
\* whatever its stdout.
C3_ExitCodeFirst ==
    (pc # "version" /\ VersionRan) =>
        /\ (spawned[1].outcome.status = <<0>> /\ ~VersionHasPrefix)
              => ReturnedErr("InvalidFlatcOutput")
        /\ spawned[1].outcome.status # <<0>> => ReturnedErr("FlatcErrorCode")

C3_Witness ==
    /\ VersionRan
    /\ spawned[1].outcome.status = <<0>>
    /\ ~VersionHasPrefix
    /\ VersionStdout # <<>>
    /\ ReturnedErr("InvalidFlatcOutput")

-----------------------------------------------------------------------------
(* C4 *)

\* A version query that ran to status 0 and printed "flatc version X", X
\* trimmed differing from the supported version.
VersionMismatch ==
    /\ pc # "version"
    /\ VersionRan
    /\ spawned[1].outcome.status = <<0>>
    /\ VersionHasPrefix
    /\ ReportedVersion # <<"2","4",".","3",".","2","5">>

\* C4 as stated: the check fails with UnsupportedFlatcVersion and the message
\* contains both the supported version and the reported version X.
C4_NamesBothVersions ==
    VersionMismatch =>
        /\ ReturnedErr("UnsupportedFlatcVersion")
        /\ Contains(ErrorMessage(Unwrap(result).err), <<"2","4",".","3",".","2","5">>)
        /\ Contains(ErrorMessage(Unwrap(result).err), ReportedVersion)

\* C4, amended: the check fails with UnsupportedFlatcVersion carrying the
\* reported version X, trimmed, and the message contains X; the supported
\* version stands in the message only where X itself contains it.
C4_NamesReportedVersion ==
    VersionMismatch =>
        /\ ReturnedErr("UnsupportedFlatcVersion")
        /\ Unwrap(result).err.version = ReportedVersion
        /\ Contains(ErrorMessage(Unwrap(result).err), ReportedVersion)
        /\ Contains(ErrorMessage(Unwrap(result).err), <<"2","4",".","3",".","2","5">>)
             <=> Contains(ReportedVersion, <<"2","4",".","3",".","2","5">>)

C4_Witness ==
    /\ VersionMismatch
    /\ ReportedVersion = <<"2","5",".","2",".","1","0">>
    /\ VersionStdout[Len(VersionStdout)] = "\n"
    /\ ReturnedErr("UnsupportedFlatcVersion")

-----------------------------------------------------------------------------
(* C5 *)

\* C5 as stated: after a successful version check, a generation that exits
\* nonzero or is killed by a signal makes compile() return FlatcErrorCode with
\* that run's exit status and its exact captured stdout and stderr; no symlink
\* is removed or created and no directive is printed.
C5_ExactOutput ==
    (pc # "generate" /\ GenerationFailed) =>
        /\ VersionAccepted
        /\ ReturnedErr("FlatcErrorCode")
        /\ Unwrap(result).err.status_code = spawned[2].outcome.status
        /\ Unwrap(result).err.stdout = spawned[2].outcome.stdout
        /\ Unwrap(result).err.stderr = spawned[2].outcome.stderr
        /\ fsops = <<>>
        /\ printed = <<>>

\* C5, amended: the error carries the run's exit status and its captured stdout
\* and stderr decoded as UTF-8 with every invalid byte replaced by U+FFFD (the
\* captured text itself when it is valid UTF-8); no symlink is removed or
\* created and no directive is printed.
C5_DecodedOutput ==
    (pc # "generate" /\ GenerationFailed) =>
        /\ VersionAccepted
        /\ ReturnedErr("FlatcErrorCode")
        /\ Unwrap(result).err.status_code = spawned[2].outcome.status
        /\ LossyImage(Unwrap(result).err.stdout, spawned[2].outcome.stdout)
        /\ LossyImage(Unwrap(result).err.stderr, spawned[2].outcome.stderr)
        /\ fsops = <<>>
        /\ printed = <<>>

C5_Witness ==
    /\ GenerationFailed
    /\ ReturnedErr("FlatcErrorCode")
    /\ spawned[2].outcome.status = <<1>>
    /\ spawned[2].outcome.stdout # spawned[2].outcome.stderr
    /\ Unwrap(result).err.stderr = spawned[2].outcome.stderr
    /\ IsSome(opts.symlink_path)
    /\ ~opts.supress_buildrs_directives
    /\ opts.files # <<>>

-----------------------------------------------------------------------------
(* C6 *)

\* files ["a.fbs"], no overrides, OUT_DIR=/tmp/out, and a compiler that reports
\* the supported version, then writes its marker file under -o and exits 0.
EndToEnd ==
    /\ pc = "done"
    /\ opts = [files |-> <<<<"a.fbs">>>>, compiler |-> <<>>, output_path |-> <<>>,
               symlink_path |-> <<>>, supress_buildrs_directives |-> FALSE]
    /\ env.OUT_DIR = <<<<"/tmp/out">>>>
    /\ VersionAccepted
    /\ GenerationSucceeded
    /\ spawned[2].wrote

\* C6 as stated: compile() returns success, the marker file is directly in
\* /tmp/out and the -o argument is /tmp/out itself.
C6_MarkerInOutDir ==
    EndToEnd =>
        /\ ReturnedOk
        /\ fs[<<"/tmp/out", "/mod.rs">>].type = "file"
        /\ OutputArg(spawned[2].args) = <<<<"/tmp/out">>>>

\* C6, amended: compile() returns success, the marker file is in
\* /tmp/out/flatbuffers and the -o argument is /tmp/out/flatbuffers.
C6_MarkerInFlatbuffers ==
    EndToEnd =>
        /\ ReturnedOk
        /\ fs[<<"/tmp/out", "/flatbuffers", "/mod.rs">>].type = "file"
        /\ OutputArg(spawned[2].args) = <<<<"/tmp/out", "/flatbuffers">>>>

C6_Witness == EndToEnd /\ ReturnedOk

-----------------------------------------------------------------------------
(* C7 *)

\* C7: the generation's arguments are --rust, --rust-module-root-file, -o, the
\* resolved output directory, then every input path once per entry of the
\* caller's list, in the caller's order.
C7_ArgumentOrder ==
    Len(spawned) >= 2 =>
        /\ Len(spawned[2].args) = 4 + Len(opts.files)
        /\ SubSeq(spawned[2].args, 1, 4) =
             <<<<"--rust">>, <<"--rust-module-root-file">>, <<"-o">>,
               Unwrap(output_path)>>
        /\ \A i \in 1..Len(opts.files) : spawned[2].args[4 + i] = opts.files[i]

C7_Witness ==
    /\ Len(spawned) = 2
    /\ opts.files = <<<<"weapon.fbs">>, <<"example.fbs">>>>
    /\ spawned[2].args[5] = <<"weapon.fbs">>
    /\ spawned[2].args[6] = <<"example.fbs">>

-----------------------------------------------------------------------------
(* C8 *)

\* The call that has just returned follows one that returned Ok with the same
\* symlink path and the same output directory; the compiler succeeded in it,
\* and the directory of the link was writable.
SecondRefresh ==
    /\ pc = "done"
    /\ IsSome(prev)
    /\ opts.symlink_path = <<Unwrap(prev).symlink_path>>
    /\ output_path = <<Unwrap(prev).output_path>>
    /\ VersionAccepted
    /\ GenerationSucceeded
    /\ \A i \in 1..Len(fsops) : fsops[i].res.ok \/ fsops[i].res.err # "EACCES"

\* C8: the second of two compile() calls in succession with the same symlink
\* path and output directory returns no error and leaves one symbolic link at
\* that path, pointing at that output directory.
C8_RefreshIdempotent ==
    SecondRefresh =>
        /\ ReturnedOk
        /\ fs[Unwrap(opts.symlink_path)] =
             [type |-> "symlink", target |-> Unwrap(output_path)]

-----------------------------------------------------------------------------
(* C9 *)

\* What a successful call prints: the directive of the symlink, if one is
\* configured, then one directive per entry of the input list.
ExpectedDirectives ==
    (IF IsSome(opts.symlink_path)
     THEN << <<"cargo::rerun-if-changed=">> \o Unwrap(opts.symlink_path) >>
     ELSE <<>>)
    \o [i \in 1..Len(opts.files) |-> <<"cargo::rerun-if-changed=">> \o opts.files[i]]

\* C9: a directive is printed only once the output directory is resolved, the
\* version check and the generation have succeeded and the symlink, if
\* configured, is refreshed; a successful call prints one directive per input
\* file plus one for the symlink path if configured, and none when suppressed.
C9_DirectivesLast ==
    /\ printed # <<>> =>
         /\ ~opts.supress_buildrs_directives
         /\ IsSome(output_path)
         /\ VersionAccepted
         /\ GenerationSucceeded
         /\ IsSome(opts.symlink_path) => RefreshSucceeded
    /\ ReturnedOk =>
         /\ printed = IF opts.supress_buildrs_directives THEN <<>>
                      ELSE ExpectedDirectives
         /\ ~opts.supress_buildrs_directives =>
              Len(printed) = Len(opts.files) + (IF IsSome(opts.symlink_path) THEN 1 ELSE 0)
    /\ opts.supress_buildrs_directives => printed = <<>>

C9_Witness ==
    /\ ReturnedOk
    /\ IsSome(opts.symlink_path)
    /\ ~opts.supress_buildrs_directives
    /\ Len(opts.files) = 2
    /\ Len(printed) = 3

-----------------------------------------------------------------------------
(* C10 *)

\* The refresh failed, and the error compile() returned wraps the OS error of
\* the call that failed under SymlinkCreationFailure.
RefreshErrorWrapped ==
    /\ Returned
    /\ Unwrap(result) =
         [ok |-> FALSE,
          err |-> [kind |-> "SymlinkCreationFailure", source |-> LastFsOp.res.err]]

\* The entries the symlink path can hold when the refresh starts.
RefreshEntries ==
    {[type |-> "absent"], [type |-> "dir"], [type |-> "file"]}
    \cup {[type |-> "symlink", target |-> d] : d \in OutDirs}

\* Some refresh of the same link, whatever entry it finds there and whether or
\* not the directory is writable, fails in the other sub-step with the very
\* error value this call returned.
SameErrorFromOtherStep ==
    \E e \in RefreshEntries, denied \in BOOLEAN :
        LET f == [fs EXCEPT ![Unwrap(opts.symlink_path)] = e]
            g == generate_symlink(f, Unwrap(opts.symlink_path),
                                  Unwrap(output_path), denied)
        IN  /\ ~g.result.ok
            /\ g.ops[Len(g.ops)].op # LastFsOp.op
            /\ g.result = Unwrap(result)

\* C10 as stated: a failed refresh returns the one symlink-failure kind
\* wrapping the OS error, and a failure to remove the stale entry is
\* distinguishable from a failure to create the link.
C10_StepDistinguished ==
    RefreshFailed =>
        /\ RefreshErrorWrapped
        /\ ~SameErrorFromOtherStep

\* C10, amended: a failed refresh returns the one symlink-failure kind wrapping
\* the OS error of the call that failed, removal or creation; the error value
\* does not say which of the two it was.
C10_ErrorWrapped ==
    RefreshFailed => RefreshErrorWrapped

C10_Witness ==
    /\ RefreshFailed
    /\ LastFsOp.op = "remove_file"
    /\ RefreshErrorWrapped

-----------------------------------------------------------------------------
(* C11 *)

\* The refresh step is taken, and the directory of the link is writable: no
\* call of the step is refused with EACCES.
RefreshStep ==
    /\ pc = "symlink"
    /\ pc' # "symlink"
    /\ \A i \in 1..Len(fsops') : fsops'[i].res.ok \/ fsops'[i].res.err # "EACCES"

\* The step removed the entry, then created the link, and the path is now a
\* link to the resolved output directory.
RemovedThenLinked ==
    /\ pc' = "directives"
    /\ Len(fsops') = 2
    /\ fsops'[1].op = "remove_file" /\ fsops'[1].res.ok
    /\ fsops'[2].op = "symlink" /\ fsops'[2].res.ok
    /\ fs'[Unwrap(opts.symlink_path)] =
         [type |-> "symlink", target |-> Unwrap(output_path)]

\* The step created the link without removing anything.
LinkedWithoutRemoval ==
    /\ pc' = "directives"
    /\ Len(fsops') = 1
    /\ fsops'[1].op = "symlink" /\ fsops'[1].res.ok
    /\ fs'[Unwrap(opts.symlink_path)] =
         [type |-> "symlink", target |-> Unwrap(output_path)]

\* C11, for the entries unlink can remove: whenever a file or a symbolic link,
\* one whose target no longer exists included, stands at the symlink path, the
\* refresh removes it first and then creates the link to the resolved output
\* directory, so the step succeeds; when no entry exists, the link is created
\* without any removal.
C11_StaleEntryReplaced ==
    [][ RefreshStep =>
          /\ fs[Unwrap(opts.symlink_path)].type \in {"file", "symlink"}
                => RemovedThenLinked
          /\ fs[Unwrap(opts.symlink_path)].type = "absent"
                => LinkedWithoutRemoval ]_vars

====
